---- MODULE Spec2Model ----
(***************************************************************************)
(* classic-operations: the Operation scope guard of                        *)
(* sources/classic/operations/operation.py, with the `with` statement of   *)
(* sources/classic/operations/decorator.py as its caller.                  *)
(*                                                                         *)
(* One step of the model is one whole call of __enter__, __exit__ or a     *)
(* registration method.  The user's callbacks and resources are opaque:    *)
(* what each of their calls does (return, raise, return a true value from  *)
(* a resource's __exit__) is an input of the step, chosen call by call as  *)
(* the handler runs.                                                       *)
(***************************************************************************)
EXTENDS Integers, Sequences, FiniteSets, TLC

(***************************************************************************)
(* Bounds of the exploration.                                              *)
(***************************************************************************)
\* deepest nesting of `with` blocks on one Operation in one thread
MaxDepth == 2
\* registrations (before_complete, ... on_finish) made during one lifecycle
MaxDyn == 2
\* lifecycles (outermost enter ... outermost exit) one thread goes through
MaxLifecycles == 2
\* calls of callbacks / resources that misbehave (raise, or return a true
\* value from __exit__) during one call of __enter__ or __exit__
MaxFaults == 2
\* registrations, lifecycles and misbehaving calls as above, for each of two
\* threads that run side by side
MaxDynConcurrent == 1
MaxLifecyclesConcurrent == 1
MaxFaultsConcurrent == 0
\* calls of __exit__ that no __enter__ matches, made by one thread in a row
MaxUnmatched == 1
\* misbehaving calls during one __enter__ where the start sequence is looked
\* at alone: one to abort it, one in the unwinding, one in the cleanup
MaxFaultsStart == 3

Threads == {1, 2}

(***************************************************************************)
(* Values.                                                                 *)
(***************************************************************************)
\* identity of a callback or resource: th = 0 for a statically configured
\* one; a registered one carries the thread and lifecycle that registered it
Id(name, n, th, life) == [name |-> name, n |-> n, th |-> th, life |-> life]
NoId == Id("", 0, 0, 0)
BodyId == Id("body", 0, 0, 0)

\* an exception value (or none); RuntimeError carries the collected errors
NoExc == [type |-> "None", by |-> NoId, suppress |-> FALSE, errors |-> <<>>]
Error(id) == [type |-> "Exception", by |-> id, suppress |-> FALSE, errors |-> <<>>]
AssertionError ==
    [type |-> "AssertionError", by |-> NoId, suppress |-> FALSE, errors |-> <<>>]
AttributeError ==
    [type |-> "AttributeError", by |-> NoId, suppress |-> FALSE, errors |-> <<>>]

\* operation.py:24-27  class Cancel(Exception): suppress
Cancel(id, suppress) ==
    [type |-> "Cancel", by |-> id, suppress |-> suppress, errors |-> <<>>]

\* operation.py:232  RuntimeError(errors)
RuntimeError(errors) ==
    [type |-> "RuntimeError", by |-> NoId, suppress |-> FALSE, errors |-> errors]

\* what one call of user code does
Ok == [kind |-> "return", exc |-> NoExc]
ReturnsTrue == [kind |-> "return_true", exc |-> NoExc]
Raises(e) == [kind |-> "raise", exc |-> e]

\* before_start, after_start, on_cancel, on_finish callbacks and a resource's
\* __enter__: the code only distinguishes returning from raising
PlainOutcomes(id) == {Ok, Raises(Error(id))}
\* before_complete and after_complete callbacks: the code later tests the
\* exception for being a Cancel
CompleteOutcomes(id) ==
    PlainOutcomes(id) \cup {Raises(Cancel(id, TRUE)), Raises(Cancel(id, FALSE))}
\* a resource's __exit__ may also return a true value (ExitStack: suppress)
ExitOutcomes(id) == CompleteOutcomes(id) \cup {ReturnsTrue}
\* how the guarded body ends
BodyOutcomes ==
    {NoExc, Error(BodyId), Cancel(BodyId, TRUE), Cancel(BodyId, FALSE)}

Phases == {"before_complete", "after_complete", "on_cancel", "on_finish"}

(***************************************************************************)
(* The Operation's configuration (the constructor's arguments).            *)
(***************************************************************************)
StaticList(name, k) == [j \in 1..k |-> Id(name, j, 0, 0)]

\* operation.py:15-21, 66-72  to_list(...) of each constructor argument: an
\* Operation configured with two resources, two before_start, on_cancel and
\* on_finish callbacks, and one callback in each other phase
StaticConfig ==
    [context_managers |-> StaticList("cm", 2),
     before_start     |-> StaticList("before_start", 2),
     after_start      |-> StaticList("after_start", 1),
     before_complete  |-> StaticList("before_complete", 1),
     after_complete   |-> StaticList("after_complete", 1),
     on_cancel        |-> StaticList("on_cancel", 2),
     on_finish        |-> StaticList("on_finish", 2)]

\* The container operation.py:79 constructs and whose four lists it reads:
\* Callbacks(before_complete=, after_complete=, on_cancel=, on_finish=).
Callbacks(bc, ac, oc, of) ==
    [live |-> TRUE, before_complete |-> bc, after_complete |-> ac,
     on_cancel |-> oc, on_finish |-> of]

\* self._current = None (operation.py:75), or deleted (operation.py:259)
NoCallbacks ==
    [live |-> FALSE, before_complete |-> <<>>, after_complete |-> <<>>,
     on_cancel |-> <<>>, on_finish |-> <<>>]

VARIABLES
    calls_count,   \* self._calls_count, per thread-local storage
    current,       \* self._current, per thread-local storage
    exit_stack,    \* self._exit_stack: the resources entered, last on top
    static,        \* self._context_managers, self._before_start, ...
    log,           \* per thread: the calls made in its lifecycle in progress
    with_depth,    \* per thread: `with` blocks of the caller now open
    lifecycle,     \* per thread: lifecycles begun
    registered,    \* per thread: callbacks its body registered, by phase
    returned,      \* the call that has just returned, as its thread saw it
    running        \* the threads that use the Operation

vars == <<calls_count, current, exit_stack, static, log,
          with_depth, lifecycle, registered, returned, running>>


(***************************************************************************)
(* A call in progress.  A frame holds the locals of __enter__ / __exit__    *)
(* and of the helper it is in; pc names the loop whose next call is due.   *)
(***************************************************************************)
NoFrame ==
    [fn |-> "none", pc |-> "none", i |-> 0,
     arg |-> NoExc,      \* the exc_val __exit__ was called with
     exc |-> NoExc,      \* exc (__enter__) / exc_val (__exit__)
     new_exc |-> NoExc,  \* __enter__: new_exc
     det |-> NoExc,      \* ExitStack.__exit__: exc_details
     pend |-> FALSE,     \* ExitStack.__exit__: pending_raise
     errs |-> <<>>,      \* _try_handle_all: errors
     thrown |-> NoExc,   \* __exit__: the exception its `except` re-raises
     fly |-> NoExc]      \* the exception propagating while `finally` runs

\* how a call ended: what it was called with (arg: the body's exception, for
\* __exit__), what it returned or raised, and what its caller is left with
NoResult ==
    [call |-> "none", arg |-> NoExc, ret |-> "none", exc |-> NoExc, seen |-> NoExc]
Result(call, arg, ret, exc, seen) ==
    [call |-> call, arg |-> arg, ret |-> ret, exc |-> exc, seen |-> seen]

Event(phase, id, arg, o) ==
    [phase |-> phase, id |-> id, arg |-> arg, kind |-> o.kind, exc |-> o.exc]

\* sources/classic/operations/decorator.py:41-44 (the `with` statement): what
\* the caller of the boundary gets after __exit__, called with the body's
\* exception `body`, returned `ret` or raised `exc`
WithResult(body, ret, exc) ==
    IF ret = "raise" THEN exc
    ELSE IF ret = "True" THEN NoExc
    ELSE body

(***************************************************************************)
(* A machine m is what one thread works on: the thread-local fields of the *)
(* Operation (cc, cur, xs, st), the frame of the call (fr), what the       *)
(* thread has seen (log, res, wd) and the misbehaving calls left (faults). *)
(***************************************************************************)
Goto(m, pc) == [m EXCEPT !.fr.pc = pc, !.fr.i = 1, !.fr.errs = <<>>]

Spend(m, o) == IF o = Ok THEN m ELSE [m EXCEPT !.faults = @ - 1]

\* the call returns or raises to the `with` statement
Leave(m, call, ret, exc) ==
    LET entered == call = "enter" /\ ret # "raise"
        seen == IF call = "exit" THEN WithResult(m.fr.arg, ret, exc) ELSE exc
    IN [m EXCEPT
          !.fr = NoFrame,
          !.res = Result(call, m.fr.arg, ret, exc, seen),
          !.wd = IF entered THEN @ + 1 ELSE @,
          !.log = IF entered /\ m.wd = 0
                  THEN Append(@, Event("body", BodyId, NoExc, Ok)) ELSE @]

\* operation.py:77-84  _new_callbacks: copies of the four static lists
NewCallbacks(st) ==
    Callbacks(st.before_complete, st.after_complete, st.on_cancel, st.on_finish)

\* an in_progress that also holds at depth 0
InProgressAtRest(cc) == cc >= 0

\* operation.py:178-183  in_progress
InProgress(cc) == cc > 0

\* a registration that puts the callback in front of the list
RegisterCallFirst(m, phase, id) ==
    IF ~(m.cc > 0)
    THEN [m EXCEPT !.res = Result("register", NoExc, "raise", AssertionError, AssertionError)]
    ELSE [m EXCEPT !.cur[phase] = <<id>> \o @,
                   !.res = Result("register", NoExc, "None", NoExc, NoExc)]

\* a registration into a snapshot that shares its lists with the Operation
RegisterCallShared(m, phase, id) ==
    IF ~(m.cc > 0)
    THEN [m EXCEPT !.res = Result("register", NoExc, "raise", AssertionError, AssertionError)]
    ELSE [m EXCEPT !.cur[phase] = Append(@, id), !.st[phase] = Append(@, id),
                   !.res = Result("register", NoExc, "None", NoExc, NoExc)]

\* a registration that asks for a snapshot instead of the depth
RegisterCallLive(m, phase, id) ==
    IF ~m.cur.live
    THEN [m EXCEPT !.res = Result("register", NoExc, "raise", AssertionError, AssertionError)]
    ELSE [m EXCEPT !.cur[phase] = Append(@, id),
                   !.res = Result("register", NoExc, "None", NoExc, NoExc)]

\* operation.py:185-215  before_complete / after_complete / on_cancel /
\* on_finish (callback): assert self.in_progress, then append to the list of
\* self._current (an AttributeError when self._current is None or deleted)
RegisterCall(m, phase, id) ==
    IF ~InProgress(m.cc)
    THEN [m EXCEPT !.res = Result("register", NoExc, "raise", AssertionError, AssertionError)]
    ELSE IF ~m.cur.live
    THEN [m EXCEPT !.res = Result("register", NoExc, "raise", AttributeError, AttributeError)]
    ELSE [m EXCEPT !.cur[phase] = Append(@, id),
                   !.res = Result("register", NoExc, "None", NoExc, NoExc)]

\* operation.py:108-111  except Exception as exc: new_exc = None; the
\* ExitStack unwinds with exc
EnterAbort(m, e) ==
    [Goto(m, "stack_exit") EXCEPT !.fr.exc = e, !.fr.det = e, !.fr.pend = FALSE]

\* operation.py:153-154  self._exit_stack.__exit__(exc_type, exc_val, exc_tb)
ExitStackBegin(m) ==
    [Goto(m, "stack_exit") EXCEPT !.fr.det = m.fr.exc, !.fr.pend = FALSE]

\* operation.py:168-169  except Exception: self._cancel()
ExitCancel(m, e) == [Goto(m, "cancel") EXCEPT !.fr.thrown = e]

\* an __enter__ that keeps a flag where the code keeps a counter
EnterReturnsFlagged(m) == Leave([m EXCEPT !.cc = 1], "enter", "None", NoExc)

\* operation.py:120  self._calls_count += 1, and __enter__ returns
EnterReturns(m) == Leave([m EXCEPT !.cc = @ + 1], "enter", "None", NoExc)

\* an aborted __enter__ that prefers the error of the start sequence to the
\* one the unwinding raised
EnterRaisesOriginal(m) ==
    LET f == m.fr IN
    IF f.errs # <<>>
    THEN Leave(m, "enter", "raise", RuntimeError(f.errs))
    ELSE Leave([m EXCEPT !.cur = NoCallbacks], "enter", "raise",
               IF f.fly # NoExc THEN f.fly ELSE f.exc)

\* operation.py:114-118  finally: self._finish() ended; raise new_exc or exc.
\* An error of _finish (operation.py:231-232, before the del of line 259)
\* replaces the one of _cancel, which replaces `new_exc or exc`.
EnterRaises(m) ==
    LET f == m.fr IN
    IF f.errs # <<>>
    THEN Leave(m, "enter", "raise", RuntimeError(f.errs))
    ELSE Leave([m EXCEPT !.cur = NoCallbacks], "enter", "raise",
               IF f.fly # NoExc THEN f.fly
               ELSE IF f.new_exc # NoExc THEN f.new_exc ELSE f.exc)

\* an end of __exit__ that does not look at the suppress flag
ExitEndsUnsuppressed(m) ==
    LET f == m.fr
        m1 == [m EXCEPT !.cur = NoCallbacks]
    IN IF f.errs # <<>>
       THEN Leave(m, "exit", "raise", RuntimeError(f.errs))
       ELSE IF f.exc.type = "Cancel"
       THEN Leave(m1, "exit", "False", NoExc)
       ELSE IF f.fly # NoExc
       THEN Leave(m1, "exit", "raise", f.fly)
       ELSE Leave(m1, "exit", "False", NoExc)

\* operation.py:171-176  finally: self._finish(); if isinstance(exc_val,
\* Cancel): return exc_val.suppress (which drops the exception in flight);
\* otherwise the exception in flight propagates, or __exit__ returns False
ExitEnds(m) ==
    LET f == m.fr
        m1 == [m EXCEPT !.cur = NoCallbacks]
    IN IF f.errs # <<>>
       THEN Leave(m, "exit", "raise", RuntimeError(f.errs))
       ELSE IF f.exc.type = "Cancel"
       THEN Leave(m1, "exit", IF f.exc.suppress THEN "True" ELSE "False", NoExc)
       ELSE IF f.fly # NoExc
       THEN Leave(m1, "exit", "raise", f.fly)
       ELSE Leave(m1, "exit", "False", NoExc)

\* a cancellation whose callback errors are dropped
AfterCancelQuiet(m, otherwise) == [Goto(m, "finish") EXCEPT !.fr.fly = otherwise]

\* operation.py:231-232 in _cancel (operation.py:242-249): the error that
\* leaves the `except` block, then `finally` runs _finish
AfterCancel(m, otherwise) ==
    [Goto(m, "finish") EXCEPT
        !.fr.fly = IF m.fr.errs # <<>> THEN RuntimeError(m.fr.errs) ELSE otherwise]

\* ExitStack.__exit__ ended (operation.py:111-113 and 154-157): it raises
\* its exc_details when a raise is pending
ExitStackRaised(f) == IF f.pend THEN f.det ELSE NoExc

\* operation.py:146, 161, 248, 257  the handler is about to read a list of
\* self._current and the attribute was deleted (operation.py:259, by an
\* __exit__ that ran inside a callback of this lifecycle): AttributeError
NoSnapshot(m) ==
    /\ ~m.cur.live
    /\ \/ m.fr.fn = "exit" /\ m.fr.pc \in {"before_complete", "after_complete",
                                             "cancel", "finish"}
       \/ m.fr.fn = "enter" /\ m.fr.pc \in {"cancel", "finish"}

\* The bookkeeping between two calls: a loop that has no callback left hands
\* over to the code after it; a read of the deleted snapshot raises
\* AttributeError where the code reads it (caught at operation.py:148 and
\* 168, not caught in _cancel and _finish).
RECURSIVE Settle(_)
Settle(m) ==
    LET f == m.fr IN
    IF NoSnapshot(m)
    THEN CASE f.fn = "exit" /\ f.pc = "before_complete" ->
                 Settle(ExitStackBegin([m EXCEPT !.fr.exc = AttributeError]))
           [] f.fn = "exit" /\ f.pc = "after_complete" ->
                 Settle(ExitCancel(m, AttributeError))
           [] f.pc = "cancel" ->
                 Settle([Goto(m, "finish") EXCEPT !.fr.fly = AttributeError])
           [] f.pc = "finish" ->
                 Leave(m, f.fn, "raise", AttributeError)
    ELSE
    CASE f.fn = "enter" /\ f.pc = "before_start" /\ f.i > Len(m.st.before_start) ->
            Settle(Goto(m, "enter_context"))
      [] f.fn = "enter" /\ f.pc = "enter_context" /\ f.i > Len(m.st.context_managers) ->
            Settle(Goto(m, "after_start"))
      [] f.fn = "enter" /\ f.pc = "after_start" /\ f.i > Len(m.st.after_start) ->
            EnterReturns(m)
      [] f.fn = "enter" /\ f.pc = "stack_exit" /\ m.xs = <<>> ->
            Settle(Goto([m EXCEPT !.fr.new_exc = ExitStackRaised(f)], "cancel"))
      [] f.fn = "enter" /\ f.pc = "cancel" /\ f.i > Len(m.cur.on_cancel) ->
            Settle(AfterCancel(m, NoExc))
      [] f.fn = "enter" /\ f.pc = "finish" /\ f.i > Len(m.cur.on_finish) ->
            EnterRaises(m)
      [] f.fn = "exit" /\ f.pc = "before_complete" /\ f.i > Len(m.cur.before_complete) ->
            Settle(ExitStackBegin(m))
      [] f.fn = "exit" /\ f.pc = "stack_exit" /\ m.xs = <<>> ->
            LET e == IF f.pend THEN f.det ELSE f.exc
                m1 == [m EXCEPT !.fr.exc = e]
            IN IF e = NoExc THEN Settle(Goto(m1, "after_complete"))
                            ELSE Settle(ExitCancel(m1, e))
      [] f.fn = "exit" /\ f.pc = "after_complete" /\ f.i > Len(m.cur.after_complete) ->
            Settle(Goto(m, "finish"))
      [] f.fn = "exit" /\ f.pc = "cancel" /\ f.i > Len(m.cur.on_cancel) ->
            Settle(AfterCancel(m, f.thrown))
      [] f.fn = "exit" /\ f.pc = "finish" /\ f.i > Len(m.cur.on_finish) ->
            ExitEnds(m)
      [] OTHER -> m


(***************************************************************************)
(* One call of user code made by the handler (the step proper).            *)
(***************************************************************************)
Called(m, phase, id, arg, o) ==
    Spend([m EXCEPT !.log = Append(@, Event(phase, id, arg, o))], o)

\* a before_start loop that goes on after a callback raised
BeforeStartStepOn(m, o) ==
    [Called(m, "before_start", m.st.before_start[m.fr.i], NoExc, o)
        EXCEPT !.fr.i = @ + 1]

\* operation.py:101 -> 234-240  _handle_for_first_error(self._before_start)
BeforeStartStep(m, o) ==
    LET m1 == Called(m, "before_start", m.st.before_start[m.fr.i], NoExc, o)
    IN IF o.kind = "raise" THEN EnterAbort(m1, o.exc)
       ELSE [m1 EXCEPT !.fr.i = @ + 1]

\* an enter_context that pushes the resource before it calls its __enter__
EnterContextStepPushed(m, o) ==
    LET id == m.st.context_managers[m.fr.i]
        m1 == [Called(m, "enter", id, NoExc, o) EXCEPT !.xs = Append(@, id)]
    IN IF o.kind = "raise" THEN EnterAbort(m1, o.exc)
       ELSE [m1 EXCEPT !.fr.i = @ + 1]

\* operation.py:104-105  self._exit_stack.enter_context(context): the
\* resource's __exit__ is pushed only when its __enter__ returned
EnterContextStep(m, o) ==
    LET id == m.st.context_managers[m.fr.i]
        m1 == Called(m, "enter", id, NoExc, o)
    IN IF o.kind = "raise" THEN EnterAbort(m1, o.exc)
       ELSE [m1 EXCEPT !.fr.i = @ + 1, !.xs = Append(@, id)]

\* operation.py:107 -> 234-240  _handle_for_first_error(self._after_start)
AfterStartStep(m, o) ==
    LET m1 == Called(m, "after_start", m.st.after_start[m.fr.i], NoExc, o)
    IN IF o.kind = "raise" THEN EnterAbort(m1, o.exc)
       ELSE [m1 EXCEPT !.fr.i = @ + 1]

\* operation.py:143-151  _handle_for_first_error(self._current.
\* before_complete); an exception becomes exc_val
BeforeCompleteStep(m, o) ==
    LET m1 == Called(m, "before_complete", m.cur.before_complete[m.fr.i], NoExc, o)
    IN IF o.kind = "raise" THEN ExitStackBegin([m1 EXCEPT !.fr.exc = o.exc])
       ELSE [m1 EXCEPT !.fr.i = @ + 1]

\* an after_complete loop whose error goes straight to the on_finish callbacks
AfterCompleteStepUncancelled(m, o) ==
    LET m1 == Called(m, "after_complete", m.cur.after_complete[m.fr.i], NoExc, o)
    IN IF o.kind = "raise" THEN [Goto(m1, "finish") EXCEPT !.fr.fly = o.exc]
       ELSE [m1 EXCEPT !.fr.i = @ + 1]

\* operation.py:160-163, 168-169  _handle_for_first_error(self._current.
\* after_complete); an exception runs _cancel and is re-raised (exc_val is
\* not assigned)
AfterCompleteStep(m, o) ==
    LET m1 == Called(m, "after_complete", m.cur.after_complete[m.fr.i], NoExc, o)
    IN IF o.kind = "raise" THEN ExitCancel(m1, o.exc)
       ELSE [m1 EXCEPT !.fr.i = @ + 1]

\* an exit stack that pops the first resource entered
ExitStackStepFifo(m, o) ==
    LET m1 == Called(m, "exit", m.xs[1], m.fr.det, o)
        m2 == [m1 EXCEPT !.xs = Tail(@)]
    IN CASE o.kind = "raise" -> [m2 EXCEPT !.fr.det = o.exc, !.fr.pend = TRUE]
         [] o.kind = "return_true" -> [m2 EXCEPT !.fr.det = NoExc, !.fr.pend = FALSE]
         [] OTHER -> m2

\* an exit stack that gives up the resources left when an __exit__ raises
ExitStackStepStops(m, o) ==
    LET n == Len(m.xs)
        m1 == Called(m, "exit", m.xs[n], m.fr.det, o)
        m2 == [m1 EXCEPT !.xs = SubSeq(@, 1, n - 1)]
    IN CASE o.kind = "raise" ->
                [m2 EXCEPT !.xs = <<>>, !.fr.det = o.exc, !.fr.pend = TRUE]
         [] o.kind = "return_true" -> [m2 EXCEPT !.fr.det = NoExc, !.fr.pend = FALSE]
         [] OTHER -> m2

\* operation.py:111, 154  one turn of the loop of ExitStack.__exit__: pop the
\* last resource entered and call its __exit__ with the current exc_details;
\* a true result clears them and any pending raise, a raise replaces them
ExitStackStep(m, o) ==
    LET n == Len(m.xs)
        m1 == Called(m, "exit", m.xs[n], m.fr.det, o)
        m2 == [m1 EXCEPT !.xs = SubSeq(@, 1, n - 1)]
    IN CASE o.kind = "raise" -> [m2 EXCEPT !.fr.det = o.exc, !.fr.pend = TRUE]
         [] o.kind = "return_true" -> [m2 EXCEPT !.fr.det = NoExc, !.fr.pend = FALSE]
         [] OTHER -> m2

\* a cleanup loop that stops at the first callback that raises
TryHandleAllStepFirst(m, phase, o) ==
    LET m1 == Called(m, phase, m.cur[phase][m.fr.i], NoExc, o)
    IN IF o.kind = "raise"
       THEN [m1 EXCEPT !.fr.i = Len(m.cur[phase]) + 1, !.fr.errs = Append(@, o.exc)]
       ELSE [m1 EXCEPT !.fr.i = @ + 1]

\* operation.py:217-232  one turn of the loop of _try_handle_all: the error
\* of a callback is kept and the next callback is called
TryHandleAllStep(m, phase, o) ==
    LET m1 == Called(m, phase, m.cur[phase][m.fr.i], NoExc, o)
    IN [m1 EXCEPT !.fr.i = @ + 1,
                  !.fr.errs = IF o.kind = "raise" THEN Append(@, o.exc) ELSE @]

\* an __enter__ that goes on with a snapshot it finds left over
EnterBeginStale(m) ==
    IF m.cc = 0
    THEN Settle([Goto([m EXCEPT !.fr = [NoFrame EXCEPT !.fn = "enter"]],
                      "before_start")
                 EXCEPT !.cur = IF m.cur.live THEN m.cur ELSE NewCallbacks(m.st)])
    ELSE EnterReturns(m)

\* operation.py:86-120  __enter__ up to its first call
EnterBegin(m) ==
    IF m.cc = 0
    THEN Settle([Goto([m EXCEPT !.fr = [NoFrame EXCEPT !.fn = "enter"]],
                      "before_start")
                 EXCEPT !.cur = NewCallbacks(m.st)])
    ELSE EnterReturns(m)

\* an __exit__ that completes the operation at every depth
ExitBeginEvery(m, exc_val) ==
    LET m1 == [m EXCEPT !.cc = @ - 1,
                        !.fr = [NoFrame EXCEPT !.fn = "exit", !.arg = exc_val,
                                               !.exc = exc_val]]
    IN IF exc_val = NoExc THEN Settle(Goto(m1, "before_complete"))
       ELSE Settle(ExitStackBegin(m1))

\* operation.py:122-176  __exit__ up to its first call
ExitBegin(m, exc_val) ==
    LET m1 == [m EXCEPT !.cc = @ - 1,
                        !.fr = [NoFrame EXCEPT !.fn = "exit", !.arg = exc_val,
                                               !.exc = exc_val]]
    IN IF m1.cc # 0 THEN Leave(m1, "exit", "False", NoExc)
       ELSE IF exc_val = NoExc THEN Settle(Goto(m1, "before_complete"))
       ELSE Settle(ExitStackBegin(m1))

\* the calls the handler may make next, each with what it leads to
Calls(m) ==
    LET f == m.fr
        may(os) == {o \in os : o = Ok \/ m.faults > 0}
    IN CASE f.pc = "before_start" ->
              {BeforeStartStep(m, o) : o \in may(PlainOutcomes(m.st.before_start[f.i]))}
         [] f.pc = "enter_context" ->
              {EnterContextStep(m, o) : o \in may(PlainOutcomes(m.st.context_managers[f.i]))}
         [] f.pc = "after_start" ->
              {AfterStartStep(m, o) : o \in may(PlainOutcomes(m.st.after_start[f.i]))}
         [] f.pc = "before_complete" ->
              {BeforeCompleteStep(m, o) : o \in may(CompleteOutcomes(m.cur.before_complete[f.i]))}
         [] f.pc = "stack_exit" ->
              {ExitStackStep(m, o) : o \in may(ExitOutcomes(m.xs[Len(m.xs)]))}
         [] f.pc = "after_complete" ->
              {AfterCompleteStep(m, o) : o \in may(CompleteOutcomes(m.cur.after_complete[f.i]))}
         [] f.pc = "cancel" ->
              {TryHandleAllStep(m, "on_cancel", o) : o \in may(PlainOutcomes(m.cur.on_cancel[f.i]))}
         [] f.pc = "finish" ->
              {TryHandleAllStep(m, "on_finish", o) : o \in may(PlainOutcomes(m.cur.on_finish[f.i]))}

\* every way the call in progress can run to its end
RECURSIVE Run(_)
Run(m) ==
    IF m.fr.fn = "none" THEN {m}
    ELSE UNION {Run(Settle(n)) : n \in Calls(m)}

\* operation.py:86-120  __enter__
Enter(m) == Run(EnterBegin(m))

\* operation.py:122-176  __exit__(type(exc_val), exc_val, traceback)
Exit(m, exc_val) == Run(ExitBegin(m, exc_val))

(***************************************************************************)
(* Threads.  operation.py:30  class Operation(threading.local): every      *)
(* thread that touches the Operation gets its own attributes.              *)
(***************************************************************************)
\* attributes kept on the object itself, for all threads
StoreKeyShared(c) == CHOOSE k \in Threads : \A j \in Threads : k <= j

StoreKey(c) == c

Alone == Cardinality(running) = 1
DynBound == IF Alone THEN MaxDyn ELSE MaxDynConcurrent
LifecycleBound == IF Alone THEN MaxLifecycles ELSE MaxLifecyclesConcurrent
FaultBound == IF Alone THEN MaxFaults ELSE MaxFaultsConcurrent

NoneRegistered == [p \in Phases |-> <<>>]
Registrations(c) ==
    Len(registered[c].before_complete) + Len(registered[c].after_complete)
        + Len(registered[c].on_cancel) + Len(registered[c].on_finish)

\* what a thread saw of its call of the Operation that has just returned:
\* the outcome, the calls made so far in the lifecycle, and whether the
\* lifecycle ended with it
NoneReturned ==
    [th |-> 0, life |-> 0, ended |-> FALSE, res |-> NoResult, log |-> <<>>,
     registered |-> NoneRegistered]

Machine(c) ==
    [cc |-> calls_count[StoreKey(c)], cur |-> current[StoreKey(c)],
     xs |-> exit_stack[StoreKey(c)], st |-> static[StoreKey(c)],
     fr |-> NoFrame, log |-> log[c], res |-> NoResult,
     wd |-> with_depth[c], faults |-> FaultBound]

Commit(c, m, life, regs) ==
    LET ended == m.res.call \in {"enter", "exit"} /\ m.wd = 0 IN
    /\ calls_count' = [calls_count EXCEPT ![StoreKey(c)] = m.cc]
    /\ current' = [current EXCEPT ![StoreKey(c)] = m.cur]
    /\ exit_stack' = [exit_stack EXCEPT ![StoreKey(c)] = m.xs]
    /\ static' = [static EXCEPT ![StoreKey(c)] = m.st]
    /\ with_depth' = [with_depth EXCEPT ![c] = m.wd]
    /\ lifecycle' = [lifecycle EXCEPT ![c] = life]
    /\ log' = [log EXCEPT ![c] = IF ended THEN <<>> ELSE m.log]
    /\ registered' = [registered EXCEPT ![c] = IF ended THEN NoneRegistered ELSE regs]
    /\ returned' = [th |-> c, life |-> life, ended |-> ended, res |-> m.res,
                    log |-> m.log, registered |-> regs]
    /\ UNCHANGED running

InitWith(threads) ==
    /\ calls_count = [k \in Threads |-> 0]
    /\ current = [k \in Threads |-> NoCallbacks]
    /\ exit_stack = [k \in Threads |-> <<>>]
    /\ static = [k \in Threads |-> StaticConfig]
    /\ log = [c \in Threads |-> <<>>]
    /\ with_depth = [c \in Threads |-> 0]
    /\ lifecycle = [c \in Threads |-> 0]
    /\ registered = [c \in Threads |-> NoneRegistered]
    /\ returned = NoneReturned
    /\ running = threads

Init == InitWith({1})

InitConcurrent == InitWith(Threads)

\* the caller has taken note of the call that returned
Observed == returned.th = 0

\* `with operation:` is reached: a new lifecycle of the thread when no block
\* of it is open, a nested entry otherwise
CallEnter(c) ==
    /\ Observed
    /\ IF with_depth[c] = 0 THEN lifecycle[c] < LifecycleBound
                            ELSE with_depth[c] < MaxDepth
    /\ LET life == IF with_depth[c] = 0 THEN lifecycle[c] + 1 ELSE lifecycle[c]
       IN \E m \in Enter(Machine(c)) : Commit(c, m, life, registered[c])

\* the block of a `with operation:` ends, normally or with an exception
CallExit(c) ==
    /\ Observed
    /\ with_depth[c] > 0
    /\ \E b \in BodyOutcomes :
          \E m \in Exit([Machine(c) EXCEPT !.wd = @ - 1], b) :
             Commit(c, m, lifecycle[c], registered[c])

\* the body registers a callback
Register(c) ==
    /\ Observed
    /\ with_depth[c] > 0
    /\ Registrations(c) < DynBound
    /\ \E phase \in Phases :
          LET id == Id(phase, Len(registered[c][phase]) + 1, c, lifecycle[c])
              m == RegisterCall(Machine(c), phase, id)
          IN Commit(c, m, lifecycle[c],
                    IF m.res.ret = "raise" THEN registered[c]
                    ELSE [registered[c] EXCEPT ![phase] = Append(@, id)])

\* code outside every `with operation:` block registers a callback
RegisterIdle(c) ==
    /\ Observed
    /\ with_depth[c] = 0
    /\ \E phase \in Phases :
          Commit(c, RegisterCall(Machine(c), phase, Id(phase, 0, c, lifecycle[c])),
                 lifecycle[c], registered[c])

\* the caller carries on after the call that returned
Resume ==
    /\ ~Observed
    /\ returned' = NoneReturned
    /\ UNCHANGED <<calls_count, current, exit_stack, static, log,
                   with_depth, lifecycle, registered, running>>

Step(c) ==
    \/ CallEnter(c)
    \/ Register(c)
    \/ RegisterIdle(c)
    \/ CallExit(c)

Next == Step(1) \/ Resume

NextConcurrent == (\E c \in Threads : Step(c)) \/ Resume

Spec == Init /\ [][Next]_vars

SpecConcurrent == InitConcurrent /\ [][NextConcurrent]_vars

\* __exit__ is called by hand where no `with operation:` block of the thread
\* is open: no __enter__ matches the call
CallExitUnmatched(c) ==
    /\ Observed
    /\ with_depth[c] = 0
    /\ calls_count[c] > -MaxUnmatched
    /\ \E b \in BodyOutcomes :
          \E m \in Exit(Machine(c), b) :
             Commit(c, m, lifecycle[c], registered[c])

\* the counter is what `with` blocks alone would have made it
Matched(c) == calls_count[c] = with_depth[c]

\* `with operation:` is reached; blocks are not nested once the counter is off
CallEnterFlat(c) == (with_depth[c] > 0 => Matched(c)) /\ CallEnter(c)

\* the blocks of one thread, which may also call __exit__ with no matching
\* __enter__
NextUnmatched ==
    \/ CallEnterFlat(1)
    \/ CallExit(1)
    \/ CallExitUnmatched(1)
    \/ Resume

SpecUnmatched == Init /\ [][NextUnmatched]_vars

\* `with operation:` is reached where no block of the thread is open, and as
\* many as MaxFaultsStart calls of the start sequence may misbehave
CallEnterStart(c) ==
    /\ Observed
    /\ with_depth[c] = 0
    /\ lifecycle[c] < LifecycleBound
    /\ \E m \in Enter([Machine(c) EXCEPT !.faults = MaxFaultsStart]) :
          Commit(c, m, lifecycle[c] + 1, registered[c])

\* the blocks of one thread, not nested, without registrations
NextStart == CallEnterStart(1) \/ CallExit(1) \/ Resume

SpecStart == Init /\ [][NextStart]_vars

(***************************************************************************)
(* Re-entry: a callback or a resource of the start sequence uses the       *)
(* Operation itself before it returns.                                     *)
(***************************************************************************)
\* no call of this lifecycle has used the Operation yet
NotReentered(m) == \A k \in 1..Len(m.log) : m.log[k].phase # "body"

\* decorator.py:41-44 run by the user code the handler is calling:
\* `with operation: pass`, that is __enter__, an empty body and __exit__ on
\* the attributes as the handler in progress left them; the calls the inner
\* block makes all return normally, and the handler's frame is resumed
InnerBlock(m) ==
    LET inner == [m EXCEPT !.fr = NoFrame, !.faults = 0]
        left == UNION {Run(ExitBegin([e EXCEPT !.wd = @ - 1], NoExc)) :
                         e \in Run(EnterBegin(inner))}
    IN {[x EXCEPT !.fr = m.fr, !.faults = m.faults, !.res = m.res] : x \in left}

\* operation.py:101-107  a call of the start sequence that runs an inner
\* block and then returns normally (its event is logged as it returns)
ReentrantCalls(m) ==
    LET f == m.fr IN
    IF f.fn # "enter" \/ ~NotReentered(m) THEN {}
    ELSE CASE f.pc = "before_start" -> {BeforeStartStep(k, Ok) : k \in InnerBlock(m)}
           [] f.pc = "enter_context" -> {EnterContextStep(k, Ok) : k \in InnerBlock(m)}
           [] f.pc = "after_start" -> {AfterStartStep(k, Ok) : k \in InnerBlock(m)}
           [] OTHER -> {}

\* every way the call in progress can run to its end when one call of the
\* start sequence may re-enter the Operation
RECURSIVE RunReentrant(_)
RunReentrant(m) ==
    IF m.fr.fn = "none" THEN {m}
    ELSE UNION {RunReentrant(Settle(n)) : n \in Calls(m) \cup ReentrantCalls(m)}

\* `with operation:` is reached where no block of the thread is open; one of
\* the callbacks or resources of the start sequence may re-enter
CallEnterReentrant(c) ==
    /\ Observed
    /\ with_depth[c] = 0
    /\ lifecycle[c] < LifecycleBound
    /\ \E m \in RunReentrant(EnterBegin(Machine(c))) :
          Commit(c, m, lifecycle[c] + 1, registered[c])

NextReentrant ==
    \/ CallEnterReentrant(1)
    \/ Register(1)
    \/ CallExit(1)
    \/ Resume

SpecReentrant == Init /\ [][NextReentrant]_vars

(***************************************************************************)
(* Registration from inside a lifecycle step: a callback or a resource     *)
(* that the handler is calling calls a registration method.                *)
(***************************************************************************)
\* registration calls made from lifecycle steps, per lifecycle
MaxProbes == 1
\* misbehaving calls per handler call where lifecycle steps register
MaxFaultsProbed == 0
\* lifecycles per thread where lifecycle steps register
MaxLifecyclesProbed == 1

\* the callback a lifecycle step tries to register for a phase
ProbeId(phase) == Id(phase, 0, 0, 0)

\* what the registering step saw: the result of the call, the depth and
\* whether a snapshot was there
Registration(phase, m, r) ==
    [phase |-> "register", id |-> ProbeId(phase), arg |-> NoExc,
     kind |-> IF r.res.ret = "raise" THEN "raise" ELSE "return",
     exc |-> r.res.exc, live |-> m.cur.live, count |-> m.cc]

\* operation.py:185-215 called by the user code the handler is calling: the
\* registration method works on the attributes as the handler in progress
\* left them; the step catches what it raises and remembers the result
Probed(m, phase) ==
    LET r == RegisterCall(m, phase, ProbeId(phase))
    IN [r EXCEPT !.res = m.res,
                 !.log = Append(@, Registration(phase, m, r))]

Probes(l) == Len(SelectSeq(l, LAMBDA e : e.phase = "register"))

\* operation.py:101-107, 143-174  the calls the handler may make next, the
\* callee calling a registration method before it returns or raises
ProbedCalls(m) ==
    IF Probes(m.log) < MaxProbes
    THEN UNION {Calls(Probed(m, phase)) : phase \in Phases}
    ELSE {}

\* every way the call in progress can run to its end when the callbacks and
\* resources it calls may register callbacks
RECURSIVE RunProbed(_)
RunProbed(m) ==
    IF m.fr.fn = "none" THEN {m}
    ELSE UNION {RunProbed(Settle(n)) : n \in Calls(m) \cup ProbedCalls(m)}

\* `with operation:` is reached where no block of the thread is open
CallEnterProbed(c) ==
    /\ Observed
    /\ with_depth[c] = 0
    /\ lifecycle[c] < MaxLifecyclesProbed
    /\ \E m \in RunProbed(EnterBegin([Machine(c) EXCEPT !.faults = MaxFaultsProbed])) :
          Commit(c, m, lifecycle[c] + 1, registered[c])

\* the outermost `with operation:` block of the thread is left
CallExitProbed(c) ==
    /\ Observed
    /\ with_depth[c] = 1
    /\ \E exc_val \in BodyOutcomes :
          \E m \in RunProbed(ExitBegin([Machine(c) EXCEPT !.wd = @ - 1,
                                                          !.faults = MaxFaultsProbed],
                                       exc_val)) :
              Commit(c, m, lifecycle[c], registered[c])

NextProbed ==
    \/ CallEnterProbed(1)
    \/ CallExitProbed(1)
    \/ Resume

SpecProbed == Init /\ [][NextProbed]_vars

(***************************************************************************)
(* Properties.  They are read off `returned`: the log of the calls the     *)
(* lifecycle made so far, the outcome of the call that just returned, and  *)
(* the callbacks the body registered.                                      *)
(***************************************************************************)
Reverse(s) == [k \in 1..Len(s) |-> s[Len(s) + 1 - k]]

\* the calls of a log as <<phase, id>>, without arguments and outcomes
Trace(l) == [k \in 1..Len(l) |-> <<l[k].phase, l[k].id>>]
Of(phase, ids) == [k \in 1..Len(ids) |-> <<phase, ids[k]>>]
\* the events of one phase, in the order of the log
InPhase(l, phase) == SelectSeq(l, LAMBDA e : e.phase = phase)
\* the callbacks (resources) one phase called, in the order of the log
Ran(l, phase) == [k \in 1..Len(InPhase(l, phase)) |-> InPhase(l, phase)[k].id]
\* the exceptions the calls of one phase raised, in the order of the log
RaisedIn(l, phase) ==
    LET r == SelectSeq(InPhase(l, phase), LAMBDA e : e.kind = "raise")
    IN [k \in 1..Len(r) |-> r[k].exc]
Quiet(l) == \A k \in 1..Len(l) : l[k].kind # "raise"

\* the callbacks of a phase as configured, then as registered by the body
Configured(phase, regs) == StaticConfig[phase] \o regs[phase]
Resources == StaticConfig.context_managers

StartTrace ==
    Of("before_start", StaticConfig.before_start) \o Of("enter", Resources)
        \o Of("after_start", StaticConfig.after_start) \o <<<<"body", BodyId>>>>
SuccessTrace(regs) ==
    StartTrace \o Of("before_complete", Configured("before_complete", regs))
        \o Of("exit", Reverse(Resources))
        \o Of("after_complete", Configured("after_complete", regs))
        \o Of("on_finish", Configured("on_finish", regs))
CleanupTrace(regs) ==
    Of("on_cancel", Configured("on_cancel", regs))
        \o Of("on_finish", Configured("on_finish", regs))
FailureTrace(regs) ==
    StartTrace \o Of("exit", Reverse(Resources)) \o CleanupTrace(regs)

\* what a resource's __exit__ leaves in flight for the resource exited next
InFlightAfter(e) ==
    CASE e.kind = "raise" -> e.exc
      [] e.kind = "return_true" -> NoExc
      [] OTHER -> e.arg
\* each resource exit was given what the one before it left in flight, the
\* first one `first`
ExitsChained(l, first) ==
    LET x == InPhase(l, "exit")
    IN \A k \in 1..Len(x) :
          x[k].arg = IF k = 1 THEN first ELSE InFlightAfter(x[k - 1])

OutermostExit == returned.ended /\ returned.res.call = "exit"
SuccessfulExit ==
    OutermostExit /\ returned.res.arg = NoExc /\ Quiet(returned.log)
BodyError == OutermostExit /\ returned.res.arg.type = "Exception"

\* C1: an outermost enter, body, exit in which nothing raises calls, once each
\* and in this order, the before_start callbacks, each resource's __enter__
\* in configured order, the after_start callbacks, the body, the
\* before_complete callbacks, each resource's __exit__ in reverse order and
\* with no exception, the after_complete callbacks and the on_finish
\* callbacks; no on_cancel callback is called and __exit__ reports no error.
C1_SuccessfulLifecycle ==
    SuccessfulExit =>
        /\ Trace(returned.log) = SuccessTrace(returned.registered)
        /\ \A k \in 1..Len(returned.log) :
              returned.log[k].phase = "exit" => returned.log[k].arg = NoExc
        /\ Ran(returned.log, "on_cancel") = <<>>
        /\ returned.res.ret = "False"
        /\ returned.res.seen = NoExc

C1_Witness ==
    /\ SuccessfulExit
    /\ returned.res.ret = "False"
    /\ Len(returned.registered.after_complete) = 1
    /\ Len(Ran(returned.log, "exit")) = Len(Resources)

\* C2 as stated: when the body raises an error after a successful start, the
\* outermost exit exits every resource in reverse order, each with the
\* body's error, then calls every on_cancel and every on_finish callback
\* once, and no before_complete or after_complete callback.
C2_EveryExitGetsBodyError ==
    BodyError =>
        /\ Trace(returned.log) = FailureTrace(returned.registered)
        /\ \A k \in 1..Len(returned.log) :
              returned.log[k].phase = "exit"
                  => returned.log[k].arg = returned.res.arg

\* C2, amended: when the body raises an error after a successful start, the
\* outermost exit exits every resource once in reverse order, then calls
\* every on_cancel and then every on_finish callback once, whichever of them
\* raise, and no before_complete or after_complete callback; the resource
\* exited first is given the body's error and each later one what the exit
\* before it left in flight (the error it raised, nothing if it returned a
\* true value, else what it was given itself).
C2_BodyErrorLifecycle ==
    BodyError =>
        /\ Trace(returned.log) = FailureTrace(returned.registered)
        /\ ExitsChained(returned.log, returned.res.arg)
        /\ Ran(returned.log, "before_complete") = <<>>
        /\ Ran(returned.log, "after_complete") = <<>>

C2_Witness ==
    /\ BodyError
    /\ \E k \in 1..Len(returned.log) :
          /\ returned.log[k].phase = "exit"
          /\ returned.log[k].arg # returned.res.arg
    /\ RaisedIn(returned.log, "on_cancel") # <<>>
    /\ Len(returned.registered.on_cancel) = 1

\* thread c enters (leaves) a `with` block inside another one of its own
InnerEnter(c) == with_depth[c] > 0 /\ with_depth'[c] = with_depth[c] + 1
InnerExit(c) == with_depth[c] > 1 /\ with_depth'[c] = with_depth[c] - 1
\* nothing but the depth of thread c changes, by d
OnlyDepth(c, d) ==
    /\ calls_count' = [calls_count EXCEPT ![c] = @ + d]
    /\ current' = current
    /\ exit_stack' = exit_stack
    /\ static' = static
    /\ log' = log
    /\ registered' = registered
    /\ returned'.log = log[c]
    /\ ~returned'.ended
NestedStep ==
    \A c \in Threads :
        /\ InnerEnter(c) =>
              /\ OnlyDepth(c, 1)
              /\ returned'.res = Result("enter", NoExc, "None", NoExc, NoExc)
        /\ InnerExit(c) =>
              /\ OnlyDepth(c, -1)
              /\ returned'.res.ret = "False"
              /\ returned'.res.exc = NoExc
              /\ returned'.res.seen = returned'.res.arg
StartsOnce ==
    \A c \in Threads :
        with_depth[c] > 0 =>
            /\ Trace(log[c]) = StartTrace
            /\ calls_count[c] = with_depth[c]
CompletesOnce ==
    OutermostExit =>
        LET l == returned.log
            n == Len(StartTrace)
        IN /\ Len(l) > n
           /\ SubSeq(Trace(l), 1, n) = StartTrace
           /\ \A k \in (n + 1)..Len(l) :
                 l[k].phase \notin {"before_start", "enter", "after_start", "body"}
           /\ Ran(l, "exit") = Reverse(Resources)
           /\ Ran(l, "on_finish") = Configured("on_finish", returned.registered)

\* C3: however deep one thread nests its `with` blocks on the Operation, the
\* start sequence runs once, at the first enter, and the completion or
\* cancellation sequence once, at the last exit; an inner enter only adds one
\* to the depth and an inner exit only takes one off: no callback and no
\* resource is called and __exit__ returns False, so that an error of the
\* inner block goes on to the enclosing one.
C3_NestingRunsSequencesOnce ==
    /\ [](StartsOnce /\ CompletesOnce)
    /\ [][NestedStep]_vars

C3_Witness ==
    /\ returned.res.call = "exit"
    /\ ~returned.ended
    /\ returned.res.arg.type = "Exception"
    /\ returned.res.seen = returned.res.arg
    /\ with_depth[returned.th] = MaxDepth - 1

CancelledBody == OutermostExit /\ returned.res.arg.type = "Cancel"
CleanupRan ==
    LET l == returned.log
        t == CleanupTrace(returned.registered)
    IN /\ Len(l) >= Len(t)
       /\ SubSeq(Trace(l), Len(l) - Len(t) + 1, Len(l)) = t
\* the caller of the boundary gets nothing if the Cancel asks for that, else
\* the Cancel
CancelDecides ==
    IF returned.res.arg.suppress
    THEN returned.res.ret = "True" /\ returned.res.seen = NoExc
    ELSE returned.res.seen = returned.res.arg

IdleRegistration(c) ==
    /\ with_depth[c] = 0
    /\ returned'.th = c
    /\ returned'.res.call = "register"
RegistersNothing ==
    \A c \in Threads :
        IdleRegistration(c) =>
            /\ returned'.res.ret = "raise"
            /\ returned'.res.exc = AssertionError
            /\ calls_count' = calls_count
            /\ current' = current
            /\ static' = static
            /\ exit_stack' = exit_stack
            /\ registered' = registered
\* a callback handed to a registration made at depth 0 (its n is 0)
HandedOverIdle(id) == id.th # 0 /\ id.n = 0
NeverRuns ==
    /\ \A k \in 1..Len(returned.log) : ~HandedOverIdle(returned.log[k].id)
    /\ \A c \in Threads : \A phase \in Phases :
          \A k \in 1..Len(current[c][phase]) : ~HandedOverIdle(current[c][phase][k])

\* C5: before_complete, after_complete, on_cancel and on_finish called at
\* depth 0 raise an AssertionError and register nothing: the counter, the
\* snapshot, the static lists and the resource stack are as before, and the
\* callback is never called, in no later lifecycle.
C5_IdleRegistrationFails ==
    /\ [][RegistersNothing]_vars
    /\ []NeverRuns

C5_Witness ==
    /\ returned.res.call = "register"
    /\ returned.res.exc = AssertionError
    /\ lifecycle[returned.th] = 1
    /\ with_depth[returned.th] = 0
    /\ current[returned.th].live

\* C6: a callback registered while the Operation is active, at any depth, is
\* called once at the outermost exit of that lifecycle, in its own phase,
\* after the statically configured callbacks of the phase and in the order
\* of registration: after a lifecycle in which nothing raises the registered
\* before_complete, after_complete and on_finish callbacks have run and the
\* registered on_cancel callbacks have not; after a body that raised, the
\* registered on_cancel and on_finish callbacks have run and the registered
\* before_complete and after_complete callbacks have not.
C6_RegisteredCallbacksRun ==
    LET l == returned.log
        regs == returned.registered
    IN /\ SuccessfulExit =>
             /\ \A phase \in {"before_complete", "after_complete", "on_finish"} :
                   Ran(l, phase) = Configured(phase, regs)
             /\ Ran(l, "on_cancel") = <<>>
       /\ (OutermostExit /\ returned.res.arg # NoExc) =>
             /\ \A phase \in {"on_cancel", "on_finish"} :
                   Ran(l, phase) = Configured(phase, regs)
             /\ Ran(l, "before_complete") = <<>>
             /\ Ran(l, "after_complete") = <<>>

C6_Witness ==
    /\ BodyError
    /\ Len(returned.registered.on_cancel) = 2
    /\ Len(RaisedIn(returned.log, "on_cancel")) = 2
    /\ Len(Ran(returned.log, "on_cancel")) = Len(StaticConfig.on_cancel) + 2

\* a registered callback in a list or a log of lifecycle `life` of thread c
\* was registered by c in that lifecycle
OfLifecycle(id, c, life) == id.th # 0 => (id.th = c /\ id.life = life)
StaticUntouched == \A k \in Threads : static[k] = StaticConfig
NothingCarriedOver ==
    /\ \A k \in 1..Len(returned.log) :
          OfLifecycle(returned.log[k].id, returned.th, returned.life)
    /\ \A c \in Threads :
          with_depth[c] > 0 =>
              \A phase \in Phases :
                  current[c][phase] = Configured(phase, registered[c])
    /\ \A c \in Threads : \A phase \in Phases :
          \A k \in 1..Len(registered[c][phase]) :
              OfLifecycle(registered[c][phase][k], c, lifecycle[c])

\* C7: a registration changes only the snapshot of the lifecycle in
\* progress: the statically configured lists of the Operation are the same
\* after any sequence of enter, register and exit calls, and a callback
\* registered in one lifecycle is not called in a later one (the snapshot of
\* a lifecycle holds the configured callbacks and those registered in it).
C7_RegistrationStaysInLifecycle ==
    StaticUntouched /\ NothingCarriedOver

C7_Witness ==
    /\ OutermostExit
    /\ returned.life = 2
    /\ returned.registered.on_finish = <<Id("on_finish", 1, returned.th, 2)>>
    /\ Ran(returned.log, "on_finish")
          = StaticConfig.on_finish \o returned.registered.on_finish

\* an enter has returned or raised, and `phases` holds the phase of the first
\* call of its start sequence that raised
AbortedIn(phases) ==
    /\ returned.res.call = "enter"
    /\ \E k \in 1..Len(returned.log) :
          /\ returned.log[k].kind = "raise"
          /\ returned.log[k].phase \in phases
          /\ \A j \in 1..(k - 1) : returned.log[j].kind # "raise"
\* the first exception raised in the lifecycle
FirstRaised(l) ==
    l[CHOOSE k \in 1..Len(l) :
        l[k].kind = "raise" /\ \A j \in 1..(k - 1) : l[j].kind # "raise"].exc
\* the resources whose __enter__ returned
Entered(l) ==
    LET e == SelectSeq(InPhase(l, "enter"), LAMBDA x : x.kind # "raise")
    IN [k \in 1..Len(e) |-> e[k].id]
\* what unwinding the resources raises: the last __exit__ that raised, unless
\* a resource exited after it returned a true value
UnwindRaised(l) ==
    LET x == InPhase(l, "exit")
        K == {k \in 1..Len(x) : x[k].kind # "return"}
        last == CHOOSE k \in K : \A j \in K : j <= k
    IN IF K = {} THEN NoExc
       ELSE IF x[last].kind = "raise" THEN x[last].exc ELSE NoExc
\* what __enter__ raises after the start sequence aborted
AbortRaises(l) ==
    IF RaisedIn(l, "on_finish") # <<>> THEN RuntimeError(RaisedIn(l, "on_finish"))
    ELSE IF RaisedIn(l, "on_cancel") # <<>> THEN RuntimeError(RaisedIn(l, "on_cancel"))
    ELSE IF UnwindRaised(l) # NoExc THEN UnwindRaised(l)
    ELSE FirstRaised(l)
\* the calls of a start sequence that a before_start callback aborted
BeforeStartAbortTrace(l) ==
    Of("before_start",
       SubSeq(StaticConfig.before_start, 1, Len(Ran(l, "before_start"))))
        \o CleanupTrace(NoneRegistered)
BeforeStartAborted ==
    LET l == returned.log
    IN /\ Trace(l) = BeforeStartAbortTrace(l)
       /\ l[Len(Ran(l, "before_start"))].kind = "raise"
       /\ returned.res.ret = "raise"
       /\ returned.ended
       /\ with_depth[returned.th] = 0

\* C8 as stated: if a before_start callback raises during an outermost
\* enter, the later before_start callbacks, the resources and the after_start
\* callbacks are not called, no resource is exited, the on_cancel and then
\* the on_finish callbacks are called once each, the body does not run, and
\* enter raises the error of the callback.
C8_EnterRaisesCallbackError ==
    AbortedIn({"before_start"}) =>
        /\ BeforeStartAborted
        /\ returned.res.exc = FirstRaised(returned.log)

\* C8, amended: if a before_start callback raises during an outermost enter,
\* the later before_start callbacks, the resources and the after_start
\* callbacks are not called, no resource is exited, the on_cancel and then
\* the on_finish callbacks are called once each and the body does not run;
\* enter raises the error of the callback unless an on_cancel or an
\* on_finish callback raises too: then it raises the RuntimeError that lists
\* the on_finish errors, or else the on_cancel errors.
C8_BeforeStartAborts ==
    AbortedIn({"before_start"}) =>
        /\ BeforeStartAborted
        /\ returned.res.exc = AbortRaises(returned.log)

C8_Witness ==
    /\ AbortedIn({"before_start"})
    /\ Len(Ran(returned.log, "before_start")) = 1
    /\ RaisedIn(returned.log, "on_cancel") # <<>>
    /\ returned.res.exc.type = "RuntimeError"

\* the calls of a start sequence that a resource's __enter__ or an
\* after_start callback aborted
StartAbortTrace(l) ==
    Of("before_start", StaticConfig.before_start)
        \o Of("enter", SubSeq(Resources, 1, Len(Ran(l, "enter"))))
        \o Of("after_start",
              SubSeq(StaticConfig.after_start, 1, Len(Ran(l, "after_start"))))
        \o Of("exit", Reverse(Entered(l)))
        \o CleanupTrace(NoneRegistered)
StartAborted ==
    LET l == returned.log
    IN /\ Trace(l) = StartAbortTrace(l)
       /\ ExitsChained(l, FirstRaised(l))
       /\ returned.res.ret = "raise"
       /\ returned.ended
       /\ with_depth[returned.th] = 0
       /\ calls_count[returned.th] = 0
       /\ exit_stack[returned.th] = <<>>

\* C9 as stated: if a resource's __enter__ or an after_start callback raises
\* during an outermost enter, the resources after it are not entered, the
\* resources whose __enter__ returned, and only they, are exited in reverse
\* order, then the on_cancel and the on_finish callbacks are called once
\* each, the body does not run, the depth is 0 afterwards, and enter raises
\* the error of that resource or callback.
C9_EnterRaisesStartError ==
    AbortedIn({"enter", "after_start"}) =>
        /\ StartAborted
        /\ returned.res.exc = FirstRaised(returned.log)

\* C9, amended: if a resource's __enter__ or an after_start callback raises
\* during an outermost enter, the resources after it are not entered, the
\* resources whose __enter__ returned, and only they, are exited in reverse
\* order, then the on_cancel and the on_finish callbacks are called once
\* each, the body does not run and the depth is 0 afterwards; enter raises
\* that error unless the unwinding or the cleanup raises too: then it raises
\* the RuntimeError that lists the on_finish errors, or else the on_cancel
\* errors, or else the error the unwinding of the resources raised.
C9_StartSequenceAborts ==
    AbortedIn({"enter", "after_start"}) =>
        /\ StartAborted
        /\ returned.res.exc = AbortRaises(returned.log)

C9_Witness ==
    /\ AbortedIn({"enter"})
    /\ Len(Ran(returned.log, "enter")) = 2
    /\ Ran(returned.log, "exit") = <<Resources[1]>>
    /\ UnwindRaised(returned.log) # NoExc
    /\ returned.res.exc = UnwindRaised(returned.log)

\* what thread c would find in its own attributes had it run alone
OwnState(c) ==
    /\ calls_count[c] = with_depth[c]
    /\ InProgress(calls_count[c]) <=> with_depth[c] > 0
    /\ with_depth[c] > 0 =>
          /\ current[c] = Callbacks(Configured("before_complete", registered[c]),
                                    Configured("after_complete", registered[c]),
                                    Configured("on_cancel", registered[c]),
                                    Configured("on_finish", registered[c]))
          /\ exit_stack[c] = Resources
          /\ Trace(log[c]) = StartTrace
    /\ with_depth[c] = 0 => exit_stack[c] = <<>> /\ log[c] = <<>>
\* the lifecycle a thread has seen is made of the configured callbacks and
\* of those it registered itself, as when it runs alone
OwnLifecycle ==
    LET l == returned.log
        regs == returned.registered
    IN /\ \A k \in 1..Len(l) : OfLifecycle(l[k].id, returned.th, returned.life)
       /\ \A phase \in Phases : \A k \in 1..Len(regs[phase]) :
             regs[phase][k].th = returned.th
       /\ (returned.res.call = "enter" /\ returned.res.ret # "raise") =>
             Trace(l) = StartTrace
       /\ (OutermostExit /\ Quiet(l)) =>
             Trace(l) = IF returned.res.arg = NoExc THEN SuccessTrace(regs)
                        ELSE FailureTrace(regs)

\* C10: when two threads use the same Operation at once, under every
\* interleaving of their enter, register and exit calls each thread has its
\* own depth, snapshot and resource stack and sees the lifecycle it would
\* see alone: an enter of one thread is not a nested enter for the other,
\* in_progress of one thread does not depend on the other, and a callback
\* registered by one thread is not called at the exit of the other.
C10_ThreadsAreIndependent ==
    (\A c \in Threads : OwnState(c)) /\ OwnLifecycle

C10_Witness ==
    /\ OutermostExit
    /\ returned.th = 2
    /\ with_depth[1] > 0
    /\ Len(registered[1].on_finish) = 1
    /\ Ran(returned.log, "on_finish") = StaticConfig.on_finish
    /\ current[1].on_finish = Configured("on_finish", registered[1])

\* an external counter that each resource increments when its __enter__
\* returns and decrements when its __exit__ is called
Balance(l) == Len(Entered(l)) - Len(Ran(l, "exit"))
\* every __exit__ of the log comes after every __enter__ of it
ExitsFollowEnters(l) ==
    \A j, k \in 1..Len(l) :
        l[j].phase = "exit" /\ l[k].phase = "enter" => k < j
\* while a block is open the resources entered are on the exit stack and
\* none has been exited
HeldWhileOpen(c) ==
    with_depth[c] > 0 =>
        /\ Ran(log[c], "exit") = <<>>
        /\ exit_stack[c] = Entered(log[c])
        /\ Entered(log[c]) = Resources

\* C11: in every lifecycle, however it ends (success, body error, Cancel,
\* aborted start, failed before_complete, raising __exit__ of a resource),
\* the resources whose __enter__ returned, and only they, are exited once
\* each, in the reverse of the order they were entered, after the last
\* __enter__; the exit stack is empty afterwards and a counter the resources
\* keep balanced is back at 0.
C11_ResourcesExitedOnce ==
    /\ \A c \in running : HeldWhileOpen(c)
    /\ returned.ended =>
          /\ Ran(returned.log, "exit") = Reverse(Entered(returned.log))
          /\ ExitsFollowEnters(returned.log)
          /\ Balance(returned.log) = 0
          /\ exit_stack[returned.th] = <<>>

\* a body error, the first resource exited raises and the other one is
\* exited all the same
C11_Witness ==
    /\ BodyError
    /\ Len(InPhase(returned.log, "exit")) = Len(Resources)
    /\ InPhase(returned.log, "exit")[1].kind = "raise"
    /\ Ran(returned.log, "exit") = Reverse(Resources)
    /\ exit_stack[returned.th] = <<>>

\* the exception the outermost exit works with once the resources are
\* exited: what their unwinding raised, or else the error of the body or of
\* the before_complete callback that raised
Effective(l, arg) ==
    IF UnwindRaised(l) # NoExc THEN UnwindRaised(l)
    ELSE IF arg # NoExc THEN arg
    ELSE IF RaisedIn(l, "before_complete") # <<>>
    THEN RaisedIn(l, "before_complete")[1]
    ELSE NoExc
\* what the caller of the boundary gets after the outermost exit of a
\* lifecycle with log l whose body raised arg
Surfaced(l, arg) ==
    IF RaisedIn(l, "on_finish") # <<>>
    THEN RuntimeError(RaisedIn(l, "on_finish"))
    ELSE IF Effective(l, arg).type = "Cancel"
    THEN (IF Effective(l, arg).suppress THEN NoExc ELSE arg)
    ELSE IF RaisedIn(l, "on_cancel") # <<>>
    THEN RuntimeError(RaisedIn(l, "on_cancel"))
    ELSE IF Effective(l, arg) # NoExc THEN Effective(l, arg)
    ELSE IF RaisedIn(l, "after_complete") # <<>>
    THEN RaisedIn(l, "after_complete")[1]
    ELSE NoExc
\* no resource's __exit__ and no cleanup callback raised
CleanUnwind(l) ==
    /\ RaisedIn(l, "exit") = <<>>
    /\ RaisedIn(l, "on_cancel") = <<>>
    /\ RaisedIn(l, "on_finish") = <<>>

\* C12 as stated: when the body raises an error that is not a Cancel, the
\* caller of the outermost exit gets that error.
C12_BodyErrorSurfaces ==
    BodyError => returned.res.seen = returned.res.arg

\* C12, amended: when the body raises an error that is not a Cancel, the
\* caller of the outermost exit gets that error provided no resource's
\* __exit__, no on_cancel callback and no on_finish callback raises;
\* otherwise it gets the RuntimeError that lists the on_finish errors, or
\* else, when the unwinding of the resources raised a Cancel, nothing
\* (suppress) or the body's error (no suppress), or else the RuntimeError
\* that lists the on_cancel errors, or else the error the unwinding raised.
C12_BodyErrorOutcome ==
    BodyError =>
        /\ CleanUnwind(returned.log) => returned.res.seen = returned.res.arg
        /\ returned.res.seen = Surfaced(returned.log, returned.res.arg)

\* a body error after which an on_cancel callback raises: the caller gets the
\* RuntimeError with that callback's error
C12_Witness ==
    /\ BodyError
    /\ RaisedIn(returned.log, "exit") = <<>>
    /\ Len(RaisedIn(returned.log, "on_cancel")) = 1
    /\ RaisedIn(returned.log, "on_finish") = <<>>
    /\ returned.res.seen = RuntimeError(RaisedIn(returned.log, "on_cancel"))

\* C13: in_progress is True exactly while a `with` block of the thread is
\* open: False before the first enter, True in the body at every nesting
\* depth, where the counter equals the number of open blocks, and False
\* again after the outermost exit and after an enter that raised, whatever
\* the outcome of the lifecycle.
C13_InProgressIffOpen ==
    /\ \A c \in running :
          /\ calls_count[c] = with_depth[c]
          /\ InProgress(calls_count[c]) <=> with_depth[c] > 0
    /\ returned.ended => ~InProgress(calls_count[returned.th])

\* in the outer body again after the exit of a nested block
C13_Witness ==
    /\ returned.res.call = "exit"
    /\ ~returned.ended
    /\ with_depth[returned.th] = 1
    /\ calls_count[returned.th] = 1
    /\ InProgress(calls_count[returned.th])

\* the errors the cleanup callbacks of the lifecycle raised
CleanupErrors(l) == RaisedIn(l, "on_cancel") \o RaisedIn(l, "on_finish")
\* e is a RuntimeError that lists the errors errs
Lists(e, errs) ==
    /\ e.type = "RuntimeError"
    /\ \A k \in 1..Len(errs) : \E j \in 1..Len(e.errors) : e.errors[j] = errs[k]
\* a lifecycle ended, by an enter that aborted or by an outermost exit, in
\* which a cleanup callback raised
CleanupFailed == returned.ended /\ CleanupErrors(returned.log) # <<>>

\* C14: whenever an on_cancel or an on_finish callback raises, the other
\* callbacks of its phase are called all the same, and the caller of the
\* boundary gets, after both phases, a RuntimeError that lists the errors
\* raised, whatever led to the cleanup: an error, or a Cancel with
\* suppress true or false. (The code loses the on_cancel errors when the
\* exit works with a Cancel or when an on_finish callback raises too.)
C14_CleanupFailureSurfaces ==
    CleanupFailed =>
        /\ \A phase \in {"on_cancel", "on_finish"} :
              RaisedIn(returned.log, phase) # <<>> =>
                  Ran(returned.log, phase) = Configured(phase, returned.registered)
        /\ Lists(returned.res.seen, CleanupErrors(returned.log))

\* the body raises Cancel(suppress=True), an on_cancel callback raises, no
\* on_finish callback does: the exit returns True and the caller gets nothing
C14_Witness ==
    /\ CancelledBody
    /\ returned.res.arg.suppress
    /\ RaisedIn(returned.log, "on_cancel") # <<>>
    /\ RaisedIn(returned.log, "on_finish") = <<>>
    /\ CleanupRan
    /\ returned.res.ret = "True"
    /\ returned.res.seen = NoExc

\* C15: whenever a thread is idle (no `with` block of it open, no call of
\* it executing) it holds no live snapshot: every enter that aborts and every
\* outermost exit deletes `_current` after the on_finish callbacks, also when
\* on_cancel or on_finish callbacks raised. (The code skips the deletion when
\* an on_finish callback raised.)
C15_IdleHoldsNoSnapshot ==
    \A c \in running : with_depth[c] = 0 => ~current[c].live

\* an outermost exit after a successful body in which an on_finish callback
\* raised: the thread is idle and still holds the snapshot of the lifecycle
C15_Witness ==
    /\ OutermostExit
    /\ returned.res.arg = NoExc
    /\ RaisedIn(returned.log, "on_finish") # <<>>
    /\ calls_count[returned.th] = 0
    /\ with_depth[returned.th] = 0
    /\ current[returned.th].live
    /\ current[returned.th].on_finish = Configured("on_finish", returned.registered)

\* thread c calls __enter__, __exit__ closing a block, __exit__ with no block
\* open
EnterCalled(c) == returned'.th = c /\ returned'.res.call = "enter"
MatchedExitCalled(c) ==
    with_depth[c] > 0 /\ returned'.th = c /\ returned'.res.call = "exit"
UnmatchedExitCalled(c) ==
    with_depth[c] = 0 /\ returned'.th = c /\ returned'.res.call = "exit"
\* the counter goes up by one with an __enter__ that returns, down by one
\* with a matching __exit__, and an __exit__ that nothing matches raises and
\* leaves it alone
CountedStep(c) ==
    /\ EnterCalled(c) =>
          calls_count'[c] =
              calls_count[c] + (IF returned'.res.ret = "raise" THEN 0 ELSE 1)
    /\ MatchedExitCalled(c) => calls_count'[c] = calls_count[c] - 1
    /\ UnmatchedExitCalled(c) =>
          /\ returned'.res.ret = "raise"
          /\ calls_count'[c] = calls_count[c]

\* C16: the depth counter is never negative: it goes up by one with each
\* __enter__ that returns and down by one with each matching __exit__, and
\* an __exit__ called at depth 0, which no __enter__ matches, raises at once
\* and leaves the depth at 0. (The code decrements and returns False.)
C16_DepthNeverNegative ==
    /\ [](\A c \in running : calls_count[c] >= 0)
    /\ [][\A c \in running : CountedStep(c)]_vars

\* __exit__ was called on an idle Operation: it returned False and the
\* counter is negative
C16_Witness ==
    /\ returned.res.call = "exit"
    /\ returned.res.ret = "False"
    /\ with_depth[returned.th] = 0
    /\ calls_count[returned.th] < 0
    /\ ~InProgress(calls_count[returned.th])

\* the lifecycle failed before its on_finish callbacks: its start sequence
\* aborted, or the outermost exit works with an exception, or an
\* after_complete callback raised
Failed(l, res) ==
    \/ res.call = "enter"
    \/ Effective(l, res.arg) # NoExc
    \/ RaisedIn(l, "after_complete") # <<>>
\* the last calls of the log are those of phase, in the order ids
EndsWith(l, phase, ids) ==
    /\ Len(l) >= Len(ids)
    /\ SubSeq(Trace(l), Len(l) - Len(ids) + 1, Len(l)) = Of(phase, ids)
    /\ Ran(l, phase) = ids

\* C17: every lifecycle that began a start sequence and ended, by an enter
\* that aborted or by an outermost exit, called each on_finish callback of
\* its snapshot exactly once, after every other call of the lifecycle and so
\* after all on_cancel callbacks, whatever raised before; it called the
\* on_cancel callbacks all once or not at all, and all once whenever the
\* lifecycle failed before the on_finish phase.
C17_CleanupRunsOnce ==
    returned.ended =>
        LET l == returned.log
            oc == Configured("on_cancel", returned.registered)
        IN /\ EndsWith(l, "on_finish", Configured("on_finish", returned.registered))
           /\ Ran(l, "on_cancel") \in {<<>>, oc}
           /\ Failed(l, returned.res) => Ran(l, "on_cancel") = oc

\* an after_complete callback and then an on_cancel callback raised: the
\* on_cancel and the on_finish callbacks, a registered one included, ran
C17_Witness ==
    /\ OutermostExit
    /\ returned.res.arg = NoExc
    /\ RaisedIn(returned.log, "after_complete") # <<>>
    /\ RaisedIn(returned.log, "on_cancel") # <<>>
    /\ returned.registered.on_finish # <<>>
    /\ Ran(returned.log, "on_cancel") = Configured("on_cancel", returned.registered)
    /\ Ran(returned.log, "on_finish") = Configured("on_finish", returned.registered)

\* an outermost exit after a body that ended normally, in which a
\* before_complete callback raised
BeforeCompleteRaised ==
    /\ OutermostExit
    /\ returned.res.arg = NoExc
    /\ RaisedIn(returned.log, "before_complete") # <<>>
\* the calls of a lifecycle whose before_complete callbacks stopped at the
\* one that raised
BeforeCompleteFailureTrace(l, regs) ==
    StartTrace
        \o Of("before_complete",
              SubSeq(Configured("before_complete", regs), 1,
                     Len(Ran(l, "before_complete"))))
        \o Of("exit", Reverse(Resources)) \o CleanupTrace(regs)

\* C18: if a before_complete callback raises at the outermost exit after a
\* successful body, the before_complete callbacks after it, registered ones
\* included, are not called, every resource is exited and is passed that
\* error, no after_complete callback is called, the on_cancel and then the
\* on_finish callbacks, static and registered, are called once each, and the
\* caller gets the error of the callback. (The code gives the caller nothing
\* when that error is a Cancel with suppress=False.)
C18_BeforeCompleteErrorSurfaces ==
    BeforeCompleteRaised =>
        LET l == returned.log
            e == RaisedIn(l, "before_complete")[1]
        IN /\ Trace(l) = BeforeCompleteFailureTrace(l, returned.registered)
           /\ InPhase(l, "before_complete")[Len(Ran(l, "before_complete"))].kind = "raise"
           /\ \A k \in 1..Len(l) : l[k].phase = "exit" => l[k].arg = e
           /\ returned.res.seen = e

\* a before_complete callback raised Cancel(suppress=False) and nothing else
\* raised: every resource was passed the Cancel, on_cancel and on_finish ran,
\* the exit returned False and the caller got nothing
C18_Witness ==
    /\ BeforeCompleteRaised
    /\ RaisedIn(returned.log, "before_complete")[1].type = "Cancel"
    /\ ~RaisedIn(returned.log, "before_complete")[1].suppress
    /\ \A k \in 1..Len(returned.log) :
          returned.log[k].kind = "raise" => returned.log[k].phase = "before_complete"
    /\ Trace(returned.log) =
          BeforeCompleteFailureTrace(returned.log, returned.registered)
    /\ returned.res.ret = "False"
    /\ returned.res.seen = NoExc

\* the calls of the log that raised
Raising(l) == {k \in 1..Len(l) : l[k].kind = "raise"}
\* an outermost exit after a body that ended normally, in which one call
\* raised and no other: the __exit__ of a resource or an after_complete
\* callback
CompletionRaised ==
    /\ OutermostExit
    /\ returned.res.arg = NoExc
    /\ Cardinality(Raising(returned.log)) = 1
    /\ \A k \in Raising(returned.log) :
          returned.log[k].phase \in {"exit", "after_complete"}

\* C19: if the __exit__ of a resource or an after_complete callback raises in
\* an outermost exit that is successful otherwise, the rest of the exit takes
\* the cancellation path: no after_complete callback is called after the
\* raise, every on_cancel and then every on_finish callback is called once,
\* and the caller gets the new error. (The code gives the caller nothing
\* when a resource's __exit__ raised a Cancel with suppress=False.)
C19_CompletionErrorCancels ==
    CompletionRaised =>
        LET l == returned.log IN
        \A k \in Raising(l) :
            /\ \A j \in (k + 1)..Len(l) : l[j].phase # "after_complete"
            /\ CleanupRan
            /\ returned.res.seen = l[k].exc

\* the resource exited last raised Cancel(suppress=False) and nothing else
\* raised: on_cancel and on_finish ran, no after_complete callback did, the
\* exit returned False and the caller got nothing
C19_Witness ==
    /\ CompletionRaised
    /\ LET x == InPhase(returned.log, "exit")
       IN /\ Len(x) = Len(Resources)
          /\ x[Len(x)].kind = "raise"
          /\ x[Len(x)].exc.type = "Cancel"
          /\ ~x[Len(x)].exc.suppress
    /\ Ran(returned.log, "after_complete") = <<>>
    /\ CleanupRan
    /\ returned.res.ret = "False"
    /\ returned.res.seen = NoExc

Suppressing(e) == e.type = "Cancel" /\ e.suppress
\* the exception the outermost exit ends with: what it works with after the
\* resources are exited, or else the error of an after_complete callback
Outcome(l, arg) ==
    IF Effective(l, arg) # NoExc THEN Effective(l, arg)
    ELSE IF RaisedIn(l, "after_complete") # <<>>
    THEN RaisedIn(l, "after_complete")[1]
    ELSE NoExc
\* an outermost exit whose outcome is a Cancel with suppress=True that the
\* body did not raise
LateCancel ==
    /\ OutermostExit
    /\ Outcome(returned.log, returned.res.arg) # returned.res.arg
    /\ Suppressing(Outcome(returned.log, returned.res.arg))

\* C20: the outcome of the outermost exit decides, not the place of the
\* raise: when a before_complete callback, the __exit__ of a resource or an
\* after_complete callback raised the Cancel with suppress=True the exit ends
\* with, the on_cancel and the on_finish callbacks are called and the caller
\* gets nothing, as for such a Cancel raised by the body (that is, unless an
\* on_finish callback raised). (The code lets the Cancel of an after_complete
\* callback through to the caller.)
C20_LateCancelSuppressed ==
    LateCancel =>
        /\ CleanupRan
        /\ RaisedIn(returned.log, "on_finish") = <<>> =>
              returned.res.ret = "True" /\ returned.res.seen = NoExc

\* an after_complete callback raised Cancel(suppress=True) after a
\* successful body and nothing else raised: on_cancel and on_finish ran and
\* the caller got the Cancel
C20_Witness ==
    /\ LateCancel
    /\ returned.res.arg = NoExc
    /\ Cardinality(Raising(returned.log)) = 1
    /\ RaisedIn(returned.log, "after_complete") # <<>>
    /\ CleanupRan
    /\ returned.res.ret = "raise"
    /\ returned.res.seen = RaisedIn(returned.log, "after_complete")[1]

\* an outermost enter whose start sequence aborted
StartFailed == returned.res.call = "enter" /\ Raising(returned.log) # {}
\* the on_cancel and then the on_finish callbacks configured were the last
\* calls of the aborted enter
AbortCleanupRan ==
    LET l == returned.log
        t == CleanupTrace(NoneRegistered)
    IN /\ Len(l) >= Len(t)
       /\ SubSeq(Trace(l), Len(l) - Len(t) + 1, Len(l)) = t
       /\ returned.res.ret = "raise"

\* C21 as stated: when the start sequence aborts and the unwinding of the
\* resources entered raises, enter raises the error of the unwinding, not
\* the error that aborted the start, and the on_cancel and on_finish
\* callbacks are called all the same; when neither the unwinding nor the
\* cleanup raises, enter raises the error that aborted the start.
C21_EnterRaisesUnwindError ==
    StartFailed =>
        LET l == returned.log IN
        /\ AbortCleanupRan
        /\ UnwindRaised(l) # NoExc => returned.res.exc = UnwindRaised(l)
        /\ (RaisedIn(l, "exit") = <<>> /\ CleanupErrors(l) = <<>>) =>
              returned.res.exc = FirstRaised(l)

\* C21, amended: when the start sequence aborts and the unwinding of the
\* resources entered raises, enter raises the error of the unwinding, not
\* the error that aborted the start, provided no on_cancel and no on_finish
\* callback raises, and the on_cancel and on_finish callbacks are called all
\* the same; when neither the unwinding nor the cleanup raises, enter raises
\* the error that aborted the start; when a cleanup callback raises, enter
\* raises the RuntimeError that lists the on_finish errors, or else the
\* on_cancel errors.
C21_UnwindErrorPreferred ==
    StartFailed =>
        LET l == returned.log IN
        /\ AbortCleanupRan
        /\ (UnwindRaised(l) # NoExc /\ CleanupErrors(l) = <<>>) =>
              returned.res.exc = UnwindRaised(l)
        /\ (RaisedIn(l, "exit") = <<>> /\ CleanupErrors(l) = <<>>) =>
              returned.res.exc = FirstRaised(l)
        /\ RaisedIn(l, "on_finish") # <<>> =>
              returned.res.exc = RuntimeError(RaisedIn(l, "on_finish"))
        /\ (RaisedIn(l, "on_finish") = <<>> /\ RaisedIn(l, "on_cancel") # <<>>) =>
              returned.res.exc = RuntimeError(RaisedIn(l, "on_cancel"))

\* an after_start callback raised, the unwinding of the resources raised
\* another error, the cleanup was quiet: enter raised the unwinding's error
C21_Witness ==
    /\ StartFailed
    /\ RaisedIn(returned.log, "after_start") # <<>>
    /\ UnwindRaised(returned.log) # NoExc
    /\ UnwindRaised(returned.log) # FirstRaised(returned.log)
    /\ CleanupErrors(returned.log) = <<>>
    /\ AbortCleanupRan
    /\ returned.res.exc = UnwindRaised(returned.log)

\* the outermost enter of a lifecycle that is not the thread's first returned
ReEntered ==
    /\ returned.life > 1
    /\ returned.res.call = "enter"
    /\ returned.res.ret # "raise"
    /\ with_depth[returned.th] = 1
\* the outermost exit of a lifecycle that is not the thread's first ended
ReExited == returned.life > 1 /\ OutermostExit
\* the log begins with the whole start sequence
StartedInFull(l) ==
    Len(l) >= Len(StartTrace) /\ SubSeq(Trace(l), 1, Len(StartTrace)) = StartTrace

\* C22: after a lifecycle that ended, however it ended, the Operation can be
\* used again: the depth is 0 and the exit stack empty; the next outermost
\* enter calls the whole start sequence and leaves a snapshot that holds the
\* configured callbacks and nothing else; the next outermost exit exits
\* every resource and calls the on_finish callbacks, and the whole success
\* sequence when nothing raises, with the callbacks configured and those
\* registered in this lifecycle only.
C22_ReusableAfterLifecycle ==
    /\ returned.ended =>
          /\ calls_count[returned.th] = 0
          /\ with_depth[returned.th] = 0
          /\ exit_stack[returned.th] = <<>>
    /\ ReEntered =>
          /\ Trace(returned.log) = StartTrace
          /\ calls_count[returned.th] = 1
          /\ exit_stack[returned.th] = Resources
          /\ current[returned.th] = NewCallbacks(StaticConfig)
          /\ returned.registered = NoneRegistered
    /\ ReExited =>
          /\ StartedInFull(returned.log)
          /\ Ran(returned.log, "exit") = Reverse(Resources)
          /\ EndsWith(returned.log, "on_finish",
                      Configured("on_finish", returned.registered))
          /\ \A k \in 1..Len(returned.log) :
                OfLifecycle(returned.log[k].id, returned.th, returned.life)
          /\ (returned.res.arg = NoExc /\ Quiet(returned.log)) =>
                Trace(returned.log) = SuccessTrace(returned.registered)

\* the second lifecycle of a thread ended successfully and called a callback
\* registered in it
C22_Witness ==
    /\ ReExited
    /\ returned.res.arg = NoExc
    /\ Quiet(returned.log)
    /\ returned.registered.after_complete # <<>>
    /\ Trace(returned.log) = SuccessTrace(returned.registered)
    /\ calls_count[returned.th] = 0
    /\ exit_stack[returned.th] = <<>>

\* an outermost enter returned and its block is open
EnterReturned ==
    /\ returned.res.call = "enter"
    /\ returned.res.ret # "raise"
    /\ with_depth[returned.th] = 1
\* the calls of one phase in a log, as many as were made
Count(l, phase) == Len(InPhase(l, phase))
\* the log holds no call of a completion or cleanup phase
NothingCompleted(l) ==
    \A k \in 1..Len(l) :
        l[k].phase \in {"before_start", "enter", "after_start", "body"}

\* C23: one snapshot at most is live per Operation and thread, also when a
\* callback or a resource called by the start sequence enters the same
\* Operation: the re-entry creates no second snapshot and runs no second
\* start sequence and no completion sequence, so that the outermost enter
\* returns after one start sequence, with its own snapshot live and every
\* resource on the exit stack once, and the outermost exit then works on that
\* snapshot and calls its on_finish callbacks. (The code counts the depth
\* only as __enter__ returns, so that the re-entry is an outermost enter and
\* exit of its own, which replaces and then deletes the snapshot.)
C23_ReentryCollapses ==
    /\ EnterReturned =>
          /\ Count(returned.log, "before_start") = Len(StaticConfig.before_start)
          /\ Ran(returned.log, "enter") = Resources
          /\ Count(returned.log, "after_start") = Len(StaticConfig.after_start)
          /\ NothingCompleted(returned.log)
          /\ current[returned.th].live
          /\ exit_stack[returned.th] = Resources
    /\ OutermostExit =>
          /\ Count(returned.log, "before_start") <= Len(StaticConfig.before_start)
          /\ Ran(returned.log, "on_finish") = Configured("on_finish", returned.registered)
          /\ returned.res.exc # AttributeError

\* an enter whose start sequence re-entered the Operation returned: the
\* before_start callbacks were called more often than configured, the
\* on_finish callbacks were called before the body, the depth is 1 and no
\* snapshot is live
C23_Witness ==
    /\ EnterReturned
    /\ calls_count[returned.th] = 1
    /\ ~current[returned.th].live
    /\ Count(returned.log, "before_start") > Len(StaticConfig.before_start)
    /\ Ran(returned.log, "on_finish") = StaticConfig.on_finish
    /\ exit_stack[returned.th] = <<>>

\* the lifecycle step at position k of a log called a registration method
\* before it returned or raised
StepRegistered(l, k, phase) ==
    /\ k > 1
    /\ l[k].phase = phase
    /\ l[k - 1].phase = "register"
\* a registration call was refused by the assertion on in_progress
Refused(e) == e.kind = "raise" /\ e.exc = AssertionError

\* C24: in_progress is true while the body runs and at no other time: the
\* depth is 0 while the start sequence and the outermost exit call their
\* callbacks and resources, so that a registration method called from inside
\* any of these calls is refused by the assertion on in_progress although a
\* snapshot is there; nothing is added to the snapshot and the callback is
\* never called. While a block is open in_progress is true, and false while
\* none is.
C24_LifecycleStepsAreIdle ==
    /\ \A k \in 1..Len(returned.log) :
          IF returned.log[k].phase = "register"
          THEN /\ returned.log[k].count = 0
               /\ returned.log[k].live
               /\ Refused(returned.log[k])
          ELSE returned.log[k].id \notin {ProbeId(phase) : phase \in Phases}
    /\ \A c \in Threads :
          /\ InProgress(calls_count[c]) <=> with_depth[c] > 0
          /\ with_depth[c] > 0 => current[c] = NewCallbacks(StaticConfig)

\* an outermost exit ended a lifecycle in which an on_finish callback called
\* a registration method, which was refused while the snapshot was live
C24_Witness ==
    /\ OutermostExit
    /\ \E k \in 1..Len(returned.log) :
          /\ StepRegistered(returned.log, k, "on_finish")
          /\ Refused(returned.log[k - 1])
          /\ returned.log[k - 1].live
          /\ returned.log[k - 1].count = 0
          /\ returned.log[k].kind = "return"

====
